---- MODULE Spec2Model ----
(***************************************************************************)
(* Model of the Ozon Fresh basket automation (src/get-ozon.py): the price  *)
(* parser, the product extractor, the selection policy, the add-to-cart    *)
(* strategies and the driver OzonAutomation.run.                           *)
(*                                                                         *)
(* Text is a sequence of one-character strings.  The module is ASCII, so   *)
(* Cyrillic letters are written in Latin transliteration ("z","a","v",     *)
(* "t","r","a" for the keyword of Config.DELIVERY_FILTERS meaning          *)
(* "tomorrow"), a capital letter being the upper-case form of the same     *)
(* letter, and "R" is the rouble sign.                                     *)
(***************************************************************************)
EXTENDS Integers, Sequences, FiniteSets, TLC

VARIABLES
    shopping_list,  \* run's argument: the item strings, in input order
    pc,             \* position of run (and of the operation a pure-function spec applies)
    i,              \* position in shopping_list of the item being processed (1-based)
    context,        \* "none" | "open" | "closed": the persistent browser context
    close_calls,    \* number of times context.close() has been executed
    raised,         \* the operation whose exception is leaving run ("none" if none is)
    products,       \* result of parse_products for the current item
    cheapest,       \* result of the selection for the current item
    log,            \* the calls run has made so far: <<operation, position>>
    outcome,        \* per list position, the outcomes reported so far (a sequence)
    selector,       \* add_to_cart: index into button_selectors during strategy 2
    tried,          \* add_to_cart: the strategies attempted in this call, in order
    found,          \* add_to_cart: the strategies that found their control in this call
    clicks,         \* add_to_cart: add-control clicks performed in this call
    done_clicks,    \* add_to_cart: add-control clicks that completed in this call
    success,        \* add_to_cart's return value: "true" | "false" ("none" before it returns)
    attempt,        \* click_by_ocr_text: attempts made in the current call
    page,           \* the result cards of the page parse_products read last
    marks,          \* check_if_logged_in: what the logged-in selectors showed (<<>> before)
    is_logged_in,   \* run's is_logged_in: "true" | "false" ("none" before the check)
    confirmed,      \* wait_for_manual_login: the operator's Enter has been received
    screenshot,     \* click_by_ocr_text: what ocr.predict recognises in the last screenshot
    coords,         \* click_by_ocr_text: the last result of find_text_with_ocr (<<>> is None)
    ocr_clicks,     \* click_by_ocr_text: the mouse clicks of the current call, in order
    ocr_result,     \* click_by_ocr_text's return value: "true" | "false" ("none" before)
    file,           \* the shopping-list file: whether it exists, and its characters
    raw_text,       \* extract_price's argument, when it is applied on its own
    float_arg,      \* extract_price: the string handed to float() (<<>> when none was)
    parsed,         \* extract_price's result, when it is applied on its own
    access_token,   \* GigaChatClient.access_token ("none" is None)
    token_expires_at, \* GigaChatClient.token_expires_at, in seconds
    now,            \* what time.time() returns, in seconds
    call,           \* the last call of _get_access_token: when, on what cache, with what end
    reply,          \* the text the LLM returned to process_with_llm
    product_list,   \* handle_message's products, the result of process_with_llm
    delivery_filters, \* Config.DELIVERY_FILTERS, the configured delivery keywords
    handles_of,     \* the item whose extracted card handles are on the current page (0: none)
    stale_use       \* a card handle has been used after a navigation that followed its extraction

vars == <<shopping_list, pc, i, context, close_calls, raised, products, cheapest, log,
          outcome, selector, tried, found, clicks, done_clicks, success, attempt, page,
          marks, is_logged_in, confirmed, screenshot, coords, ocr_clicks, ocr_result,
          file, raw_text, float_arg, parsed, access_token, token_expires_at, now, call,
          reply, product_list, delivery_filters, handles_of, stale_use>>

-----------------------------------------------------------------------------
(* Bounds of the model *)

\* longest shopping list given to run
MaxItems == 2
\* most result cards on a page read by the driver
MaxCards == 2
\* longest candidate sequence given to the selection policy on its own
MaxCands == 3
MaxPageCards == 6
MaxTextLen == 4
MaxResults == 2
MaxDets == 2
MaxFileLen == 5
\* the clock of the token cache is read up to MaxTicks margins after its start
MaxTicks == 7
\* replies of the language model have up to MaxReplyLen characters
MaxReplyLen == 3

-----------------------------------------------------------------------------
(* Config, src/get-ozon.py:24-38 *)

MAX_PRODUCTS_TO_CHECK == 5
WAIT_FOR_LOGIN == TRUE

\* click_by_ocr_text's default `retries`, src/get-ozon.py:162
OCR_RETRIES == 3

\* _get_access_token's safety margin in seconds, src/llm_client.py:58
TOKEN_MARGIN == 300

\* the lifetime given to a new token, 30 * 60 seconds, src/llm_client.py:81
TOKEN_LIFETIME == 1800

\* find_text_with_ocr's confidence threshold 0.5 in tenths, src/get-ozon.py:151
SCORE_THRESHOLD == 5

\* "segodnya" (today), "zavtra" (tomorrow)
SEGODNYA == <<"s", "e", "g", "o", "d", "n", "y">>
ZAVTRA == <<"z", "a", "v", "t", "r", "a">>
DELIVERY_FILTERS == <<SEGODNYA, ZAVTRA>>

-----------------------------------------------------------------------------
(* Text primitives: str.lower, the `in` operator on strings, str.split,    *)
(* str.join, str.replace and re.sub with a character class.                *)

Digits == {"0", "1", "2", "3", "4", "5", "6", "7", "8", "9"}

UpperToLower ==
    [c \in {"Z", "S", "V", "D", "K", "I", "A", "T"} |->
        CASE c = "Z" -> "z" [] c = "S" -> "s" [] c = "V" -> "v"
          [] c = "D" -> "d" [] c = "K" -> "k" [] c = "I" -> "i"
          [] c = "A" -> "a" [] c = "T" -> "t"]

LowerChar(c) == IF c \in DOMAIN UpperToLower THEN UpperToLower[c] ELSE c

\* str.lower()
Lower(text) == [k \in 1..Len(text) |-> LowerChar(text[k])]

\* `sub in text`: sub occurs as a contiguous substring of text
Contains(sub, text) ==
    \E start \in 0..(Len(text) - Len(sub)) :
        \A k \in 1..Len(sub) : text[start + k] = sub[k]

\* re.sub(r'[^\d,.]', '', text): keep digits, commas and periods
KeepPriceChars(text) == SelectSeq(text, LAMBDA c : c \in Digits \cup {",", "."})

\* text.replace(',', '.')
CommaToPeriod(text) == [k \in 1..Len(text) |-> IF text[k] = "," THEN "." ELSE text[k]]

\* text.split('.'): the pieces between periods (always at least one piece)
RECURSIVE SplitPeriod(_)
SplitPeriod(text) ==
    IF \A k \in 1..Len(text) : text[k] # "."
    THEN <<text>>
    ELSE LET p == CHOOSE k \in 1..Len(text) :
                    text[k] = "." /\ \A j \in 1..(k - 1) : text[j] # "."
         IN  <<SubSeq(text, 1, p - 1)>> \o SplitPeriod(SubSeq(text, p + 1, Len(text)))

\* ''.join(parts)
RECURSIVE Join(_)
Join(parts) == IF parts = <<>> THEN <<>> ELSE Head(parts) \o Join(Tail(parts))

-----------------------------------------------------------------------------
(* Prices.  A float is [inf, n, d]: +infinity, or the decimal n / 10^d with *)
(* d as small as possible, so that equal numbers are equal records.        *)

Inf == [inf |-> TRUE, n |-> 0, d |-> 0]

RECURSIVE Pow10(_)
Pow10(k) == IF k = 0 THEN 1 ELSE 10 * Pow10(k - 1)

RECURSIVE Normal(_, _)
Normal(n, d) ==
    IF d > 0 /\ n % 10 = 0 THEN Normal(n \div 10, d - 1)
    ELSE [inf |-> FALSE, n |-> n, d |-> d]

Num(n) == [inf |-> FALSE, n |-> n, d |-> 0]

\* a < b on floats
PriceLt(a, b) ==
    /\ ~a.inf
    /\ (b.inf \/ a.n * Pow10(b.d) < b.n * Pow10(a.d))

DigitVal(c) ==
    CASE c = "0" -> 0 [] c = "1" -> 1 [] c = "2" -> 2 [] c = "3" -> 3 [] c = "4" -> 4
      [] c = "5" -> 5 [] c = "6" -> 6 [] c = "7" -> 7 [] c = "8" -> 8 [] c = "9" -> 9

RECURSIVE ToNat(_)
ToNat(ds) == IF ds = <<>> THEN 0 ELSE 10 * ToNat(SubSeq(ds, 1, Len(ds) - 1)) + DigitVal(ds[Len(ds)])

\* the decimal digits of 2^1024 - 2^970, half-way between the largest double
\* and 2^1024: float() rounds to nearest, so every decimal from this number
\* on becomes inf, and every smaller one a finite double
DBL_OVERFLOW ==
    << "1", "7", "9", "7", "6", "9", "3", "1", "3", "4", "8", "6",
       "2", "3", "1", "5", "8", "0", "7", "9", "3", "7", "2", "8",
       "9", "7", "1", "4", "0", "5", "3", "0", "3", "4", "1", "5",
       "0", "7", "9", "9", "3", "4", "1", "3", "2", "7", "1", "0",
       "0", "3", "7", "8", "2", "6", "9", "3", "6", "1", "7", "3",
       "7", "7", "8", "9", "8", "0", "4", "4", "4", "9", "6", "8",
       "2", "9", "2", "7", "6", "4", "7", "5", "0", "9", "4", "6",
       "6", "4", "9", "0", "1", "7", "9", "7", "7", "5", "8", "7",
       "2", "0", "7", "0", "9", "6", "3", "3", "0", "2", "8", "6",
       "4", "1", "6", "6", "9", "2", "8", "8", "7", "9", "1", "0",
       "9", "4", "6", "5", "5", "5", "5", "4", "7", "8", "5", "1",
       "9", "4", "0", "4", "0", "2", "6", "3", "0", "6", "5", "7",
       "4", "8", "8", "6", "7", "1", "5", "0", "5", "8", "2", "0",
       "6", "8", "1", "9", "0", "8", "9", "0", "2", "0", "0", "0",
       "7", "0", "8", "3", "8", "3", "6", "7", "6", "2", "7", "3",
       "8", "5", "4", "8", "4", "5", "8", "1", "7", "7", "1", "1",
       "5", "3", "1", "7", "6", "4", "4", "7", "5", "7", "3", "0",
       "2", "7", "0", "0", "6", "9", "8", "5", "5", "5", "7", "1",
       "3", "6", "6", "9", "5", "9", "6", "2", "2", "8", "4", "2",
       "9", "1", "4", "8", "1", "9", "8", "6", "0", "8", "3", "4",
       "9", "3", "6", "4", "7", "5", "2", "9", "2", "7", "1", "9",
       "0", "7", "4", "1", "6", "8", "4", "4", "4", "3", "6", "5",
       "5", "1", "0", "7", "0", "4", "3", "4", "2", "7", "1", "1",
       "5", "5", "9", "6", "9", "9", "5", "0", "8", "0", "9", "3",
       "0", "4", "2", "8", "8", "0", "1", "7", "7", "9", "0", "4",
       "1", "7", "4", "4", "9", "7", "7", "9", "2" >>

\* ds without its leading zeros
StripZeros(ds) ==
    IF \A k \in 1..Len(ds) : ds[k] = "0" THEN <<>>
    ELSE SubSeq(ds, CHOOSE k \in 1..Len(ds) : ds[k] # "0" /\ \A j \in 1..(k - 1) : ds[j] = "0",
                Len(ds))

\* a >= b for digit strings of the same length
DigitsGe(a, b) ==
    \/ a = b
    \/ \E k \in 1..Len(a) :
            /\ DigitVal(a[k]) > DigitVal(b[k])
            /\ \A j \in 1..(k - 1) : a[j] = b[j]

\* float(text) is inf: the integer part of the decimal reaches DBL_OVERFLOW
Overflows(text) ==
    LET int_part == StripZeros(SplitPeriod(text)[1])
    IN  \/ Len(int_part) > Len(DBL_OVERFLOW)
        \/ Len(int_part) = Len(DBL_OVERFLOW) /\ DigitsGe(int_part, DBL_OVERFLOW)

\* as FloatRaises, for a float() that accepts every text
FloatAcceptsAll(text) == FALSE

\* float(text) for a text of digits and periods raises ValueError when the
\* text has no digit or more than one period
FloatRaises(text) ==
    LET parts == SplitPeriod(text)
    IN  Join(parts) = <<>> \/ Len(parts) > 2

\* float(text) when it does not raise: inf beyond the range of a double, else
\* the decimal the text denotes
Float(text) ==
    LET parts == SplitPeriod(text)
    IN  IF Overflows(text) THEN Inf
        ELSE Normal(ToNat(StripZeros(Join(parts))), IF Len(parts) = 2 THEN Len(parts[2]) ELSE 0)

\* as normalise, without the joining of lines 280-282
normalise_uncollapsed(price_text) == CommaToPeriod(KeepPriceChars(price_text))

\* extract_price, lines 276-282: the string handed to float()
normalise(price_text) ==
    LET cleaned == CommaToPeriod(KeepPriceChars(price_text))
        parts == SplitPeriod(cleaned)
    IN  IF Len(parts) > 2
        THEN Join(SubSeq(parts, 1, Len(parts) - 1)) \o <<".">> \o parts[Len(parts)]
        ELSE cleaned

\* OzonAutomation.extract_price: the sentinel for an empty text (line 273)
\* and for a ValueError of float() (lines 287-288)
extract_price(price_text) ==
    IF price_text = <<>> THEN Inf
    ELSE IF FloatRaises(normalise(price_text)) THEN Inf
    ELSE Float(normalise(price_text))

-----------------------------------------------------------------------------
(* Result cards and the product extractor.  A card is what the locators of *)
(* parse_products read from one result element: whether reading its fields *)
(* raises, whether it has a span with the rouble sign and that span's text,*)
(* whether it has a button and the first button's text.  A page is the     *)
(* sequence of cards of the first card selector that matches anything (the *)
(* empty sequence when none does).  The product name plays no part in      *)
(* selection or commit and is left out of Product.                         *)

Card(throws, has_price, price_text, has_button, button_text) ==
    [throws |-> throws, has_price |-> has_price, price_text |-> price_text,
     has_button |-> has_button, button_text |-> button_text]

\* Product(price, delivery, card_element): card_element is the index of the
\* card on the page (product_cards.nth(card_element - 1))
Product(price, delivery, card_element) ==
    [price |-> price, delivery |-> delivery, card_element |-> card_element]

Min(a, b) == IF a < b THEN a ELSE b

\* parse_products, lines 349-356: the delivery text of a card
card_delivery(card) ==
    IF card.has_button
    THEN LET btn_text_lower == Lower(card.button_text)
         IN  IF Contains(SEGODNYA, btn_text_lower) \/ Contains(ZAVTRA, btn_text_lower)
             THEN btn_text_lower
             ELSE <<>>
    ELSE <<>>

\* parse_products, lines 342-347: the price of a card
card_price(card) ==
    IF card.has_price THEN extract_price(card.price_text) ELSE Inf

\* as appends, without the finite-price test of line 358
appends_any_price(card) == TRUE

\* parse_products, line 358: the card is appended only with a finite price
appends(card) == PriceLt(card_price(card), Inf)

\* as parse_cards, with a raising card ending the whole pass
RECURSIVE parse_cards_abort(_, _, _)
parse_cards_abort(cards, k, count) ==
    IF k > count \/ cards[k].throws THEN <<>>
    ELSE LET card == cards[k]
             this == IF appends(card)
                     THEN <<Product(card_price(card), card_delivery(card), k)>>
                     ELSE <<>>
         IN  this \o parse_cards_abort(cards, k + 1, count)

\* parse_products, lines 323-370: the loop over the first `count` cards; the
\* try of line 324 encloses one card's reads, and its handler (lines 369-370)
\* goes on to the next card
RECURSIVE parse_cards(_, _, _)
parse_cards(cards, k, count) ==
    IF k > count THEN <<>>
    ELSE LET card == cards[k]
             this == IF ~card.throws /\ appends(card)
                     THEN <<Product(card_price(card), card_delivery(card), k)>>
                     ELSE <<>>
         IN  this \o parse_cards(cards, k + 1, count)

\* as parse_products, reading every card of the page
parse_products_uncapped(cards) ==
    IF Len(cards) = 0 THEN <<>>
    ELSE parse_cards(cards, 1, Len(cards))

\* OzonAutomation.parse_products (when the card locators do not raise)
parse_products(cards) ==
    IF Len(cards) = 0 THEN <<>>
    ELSE parse_cards(cards, 1, Min(Len(cards), MAX_PRODUCTS_TO_CHECK))

-----------------------------------------------------------------------------
(* The selection policy *)

\* filter_by_delivery, lines 386-389: some configured keyword is in the text
matches_delivery(product) ==
    \E k \in 1..Len(delivery_filters) : Contains(delivery_filters[k], product.delivery)

\* OzonAutomation.filter_by_delivery
filter_by_delivery(prods) == SelectSeq(prods, matches_delivery)

None == [price |-> Inf, delivery |-> <<>>, card_element |-> 0]

\* as min_by_price, a later element of equal price replacing the earlier one
RECURSIVE min_by_price_last(_, _)
min_by_price_last(best, rest) ==
    IF rest = <<>> THEN best
    ELSE min_by_price_last(IF PriceLt(best.price, Head(rest).price) THEN best ELSE Head(rest),
                           Tail(rest))

\* min(products, key=lambda p: p.price): the first element no later one beats
RECURSIVE min_by_price(_, _)
min_by_price(best, rest) ==
    IF rest = <<>> THEN best
    ELSE min_by_price(IF PriceLt(Head(rest).price, best.price) THEN Head(rest) ELSE best,
                      Tail(rest))

\* OzonAutomation.find_cheapest
find_cheapest(prods) ==
    IF prods = <<>> THEN None ELSE min_by_price(Head(prods), Tail(prods))

\* as select, without the delivery filter
select_unfiltered(prods) == find_cheapest(prods)

\* as select, without the fallback to all the products of lines 549-551
select_no_fallback(prods) == find_cheapest(filter_by_delivery(prods))

\* run, lines 545-555: filter, fall back to all the products, take the cheapest
select(prods) ==
    LET filtered == filter_by_delivery(prods)
    IN  find_cheapest(IF filtered = <<>> THEN prods ELSE filtered)

-----------------------------------------------------------------------------
(* The inputs of the model *)

\* "100 R", "49,90 R" and a price span holding the rouble sign only
T100 == <<"1", "0", "0", " ", "R">>
T4990 == <<"4", "9", ",", "9", "0", " ", "R">>
TR == <<"R">>

\* button texts "Zavtra" (tomorrow) and "V korzinu" (to the cart)
BZavtra == <<"Z", "a", "v", "t", "r", "a">>
BKorzinu == <<"V", " ", "k", "o", "r", "z", "i", "n", "u">>

\* a card with tomorrow's delivery, a cheaper one without delivery keyword,
\* one with an unparseable price, one without price span, one whose reads raise
SampleCards ==
    { Card(FALSE, TRUE, T100, TRUE, BZavtra),
      Card(FALSE, TRUE, T4990, TRUE, BKorzinu),
      Card(FALSE, TRUE, TR, TRUE, BZavtra),
      Card(FALSE, FALSE, <<>>, TRUE, BZavtra),
      Card(TRUE, TRUE, T100, TRUE, BZavtra) }

Pages == UNION {[1..n -> SampleCards] : n \in 0..MaxCards}

Items == {"maslo", "moloko"}

ShoppingLists == UNION {[1..n -> Items] : n \in 1..MaxItems}

Range(seq) == {seq[k] : k \in 1..Len(seq)}

-----------------------------------------------------------------------------
(* Text recognition.  ocr.predict returns a list of result objects; the    *)
(* aligned lists rec_texts, rec_scores and rec_polys of one result are a   *)
(* sequence of detections [text, score, poly].  Scores are in tenths, a    *)
(* poly is the four corners of the text box, clockwise from the top left.  *)

Detection(text, score, poly) == [text |-> text, score |-> score, poly |-> poly]

\* the box with top left corner (x0, y0) and bottom right corner (x2, y2)
Box(x0, y0, x2, y2) == << <<x0, y0>>, <<x2, y0>>, <<x2, y2>>, <<x0, y2>> >>

\* lines 154-157: the centre of the box from corners poly[0] and poly[2],
\* cut to integers
centre(poly) == << (poly[1][1] + poly[3][1]) \div 2, (poly[1][2] + poly[3][2]) \div 2 >>

\* as qualifies, accepting a confidence of exactly 0.5 as well
qualifies_from_threshold(det, target_text) ==
    Contains(Lower(target_text), Lower(det.text)) /\ det.score >= SCORE_THRESHOLD

\* line 151: target_text.lower() in text.lower() and score > 0.5
qualifies(det, target_text) ==
    Contains(Lower(target_text), Lower(det.text)) /\ det.score > SCORE_THRESHOLD

\* lines 150-157: the loop over one result's detections, from detection k on
RECURSIVE scan_detections(_, _, _)
scan_detections(result, k, target_text) ==
    IF k > Len(result) THEN <<>>
    ELSE IF qualifies(result[k], target_text) THEN centre(result[k].poly)
    ELSE scan_detections(result, k + 1, target_text)

\* lines 144-159: the loop over the results, from result r on; the first
\* qualifying detection ends it
RECURSIVE scan_results(_, _, _)
scan_results(results, r, target_text) ==
    IF r > Len(results) THEN <<>>
    ELSE IF scan_detections(results[r], 1, target_text) # <<>>
         THEN scan_detections(results[r], 1, target_text)
    ELSE scan_results(results, r + 1, target_text)

\* OzonAutomation.find_text_with_ocr on the results of ocr.predict: the
\* coordinates found, or <<>> for None
find_text_with_ocr(results, target_text) ==
    IF results = <<>> THEN <<>> ELSE scan_results(results, 1, target_text)

\* "Iskat'" (search), the text search_product looks for
ISKAT == <<"I", "s", "k", "a", "t">>

\* detections: the target in capitals at 0.9, inside a longer text at 0.6, at
\* exactly 0.5, and another text at 0.9
SampleDetections ==
    { [text |-> <<"I", "S", "K", "A", "T">>, score |-> 9],
      [text |-> <<"i", "s", "k", "a", "t", " ", "s", "e", "j", "c", "h", "a", "s">>, score |-> 6],
      [text |-> ISKAT, score |-> 5],
      [text |-> BKorzinu, score |-> 9] }

\* the box of detection d of result r: every position has its own centre
BoxAt(r, d) == Box(100 * r, 10 * d, 100 * r + 41, 10 * d + 7)

\* the results whose detections are of the kinds f gives, one box each
Screen(f) ==
    [r \in DOMAIN f |->
        [d \in DOMAIN f[r] |-> Detection(f[r][d].text, f[r][d].score, BoxAt(r, d))]]

\* screenshots of the run: nothing recognised, another text only, the target
\* at exactly 0.5 only, and the target twice
SampleScreens ==
    { <<>>,
      Screen(<< <<[text |-> BKorzinu, score |-> 9]>> >>),
      Screen(<< <<[text |-> ISKAT, score |-> 5]>> >>),
      Screen(<< << [text |-> <<"I", "S", "K", "A", "T">>, score |-> 9],
                   [text |-> <<"i", "s", "k", "a", "t", " ", "s", "e", "j", "c", "h", "a", "s">>,
                    score |-> 6] >> >>) }

-----------------------------------------------------------------------------
(* OzonAutomation.run.  Every browser call either returns or raises; the   *)
(* delays (random_delay, asyncio.sleep) and wait_for_page_load, which      *)
(* swallows its exceptions, always return.                                 *)

\* Config as shipped, line 31
config_shipped == delivery_filters = DELIVERY_FILTERS

\* no candidate extracted yet
handle_idle ==
    /\ handles_of = 0
    /\ stale_use = FALSE

\* GigaChatClient.__init__, lines 49-53, and no call of _get_access_token yet
NoCall ==
    [made |-> FALSE, at |-> 0, token_before |-> "none", expires_before |-> 0,
     exchanged |-> FALSE, stored_at |-> 0, returned |-> "none", raised |-> "none"]

llm_idle ==
    /\ access_token = "none"
    /\ token_expires_at = 0
    /\ now = 0
    /\ call = NoCall

\* no message handled by the bot
bot_idle ==
    /\ reply = <<>>
    /\ product_list = <<>>

\* no shopping-list file read and no price parsed on its own
fn_idle ==
    /\ llm_idle
    /\ bot_idle
    /\ config_shipped
    /\ file = [exists |-> FALSE, content |-> <<>>]
    /\ raw_text = <<>>
    /\ float_arg = <<>>
    /\ parsed = Inf

\* before check_if_logged_in
login_idle ==
    /\ marks = <<>>
    /\ is_logged_in = "none"
    /\ confirmed = FALSE

\* outside click_by_ocr_text
ocr_idle ==
    /\ screenshot = <<>>
    /\ coords = <<>>
    /\ ocr_clicks = <<>>
    /\ ocr_result = "none"

Init ==
    /\ shopping_list \in ShoppingLists
    /\ fn_idle
    /\ login_idle
    /\ ocr_idle
    /\ handle_idle
    /\ pc = "launch"
    /\ i = 0
    /\ context = "none"
    /\ close_calls = 0
    /\ raised = "none"
    /\ products = <<>>
    /\ cheapest = None
    /\ log = <<>>
    /\ outcome = [k \in 1..Len(shopping_list) |-> <<>>]
    /\ selector = 0
    /\ tried = <<>>
    /\ found = {}
    /\ clicks = 0
    /\ done_clicks = 0
    /\ success = "none"
    /\ attempt = 0
    /\ page = <<>>

cart_vars == <<selector, tried, found, clicks, done_clicks, success>>
handle_vars == <<handles_of, stale_use>>
item_vars == <<products, cheapest, page>>
login_vars == <<marks, is_logged_in, confirmed>>
ocr_vars == <<screenshot, coords, ocr_clicks, ocr_result>>
llm_vars == <<access_token, token_expires_at, now, call>>
bot_vars == <<reply, product_list>>
config_vars == <<delivery_filters>>
fn_vars == <<file, raw_text, float_arg, parsed, llm_vars, bot_vars, config_vars>>

\* an exception raised by `op` inside run's try block: the handler of lines
\* 581-583 reports it and re-raises, and the finally block runs next
Propagate(op) ==
    /\ raised' = op
    /\ pc' = "finally"

\* lines 483-501: the browser is launched with a persistent context
Launch ==
    /\ pc = "launch"
    /\ \E r \in {"ok", "raises"} :
        IF r = "ok"
        THEN /\ context' = "open"
             /\ pc' = "acquire_page"
             /\ UNCHANGED raised
        ELSE /\ raised' = "launch_persistent_context"
             /\ pc' = "raised"
             /\ UNCHANGED context
    /\ UNCHANGED <<shopping_list, fn_vars, handle_vars, login_vars, ocr_vars, i, close_calls, log, outcome, attempt, cart_vars, item_vars>>

\* lines 503-507: the context's first page, or a new page; this is before
\* the try block, so an exception of new_page leaves run at once
AcquirePage ==
    /\ pc = "acquire_page"
    /\ \E r \in {"existing", "new", "raises"} :
        IF r = "raises"
        THEN /\ raised' = "new_page"
             /\ pc' = "raised"
        ELSE /\ pc' = "open_site"
             /\ UNCHANGED raised
    /\ UNCHANGED <<shopping_list, fn_vars, handle_vars, login_vars, ocr_vars, i, context, close_calls, log, outcome, attempt,
                   cart_vars, item_vars>>

\* lines 510-514: goto(OZON_URL); wait_for_page_load swallows its exceptions
OpenSite ==
    /\ pc = "open_site"
    /\ \E r \in {"ok", "raises"} :
        IF r = "ok"
        THEN /\ pc' = "check_login"
             /\ UNCHANGED raised
        ELSE Propagate("goto")
    /\ UNCHANGED <<shopping_list, fn_vars, handle_vars, login_vars, ocr_vars, i, context, close_calls, log, outcome, attempt,
                   cart_vars, item_vars>>

\* as check_if_logged_in, asking the first logged-in selector only
check_if_logged_in_first(seen) == seen[1] = "present"

\* check_if_logged_in, lines 105-121: seen[k] is what the k-th logged-in
\* selector's count() does; the loop returns True at the first selector
\* that matches an element, and an exception makes the function return False
check_if_logged_in(seen) ==
    LET hit(k) == seen[k] = "present" /\ \A j \in 1..(k - 1) : seen[j] = "absent"
    IN  \E k \in 1..3 : hit(k)

\* lines 516-522: with the wait flag set, the login check decides between
\* wait_for_manual_login and going on
CheckLogin ==
    /\ pc = "check_login"
    /\ IF WAIT_FOR_LOGIN
       THEN \E seen \in [1..3 -> {"present", "absent", "raises"}] :
                /\ marks' = seen
                /\ is_logged_in' = IF check_if_logged_in(seen) THEN "true" ELSE "false"
                /\ pc' = IF check_if_logged_in(seen) THEN "navigate" ELSE "wait_for_manual_login"
       ELSE /\ pc' = "navigate"
            /\ UNCHANGED <<marks, is_logged_in>>
    /\ UNCHANGED <<shopping_list, fn_vars, handle_vars, confirmed, ocr_vars, i, context, close_calls, raised, log,
                   outcome, attempt, cart_vars, item_vars>>

\* wait_for_manual_login, lines 82-98: blocks on input(); the operator's Enter
\* lets it return, a closed console makes input() raise
WaitForManualLogin ==
    /\ pc = "wait_for_manual_login"
    /\ \E r \in {"confirmed", "raises"} :
        IF r = "confirmed"
        THEN /\ confirmed' = TRUE
             /\ pc' = "navigate"
             /\ UNCHANGED raised
        ELSE /\ Propagate("wait_for_manual_login")
             /\ UNCHANGED confirmed
    /\ marks' = <<>>
    /\ UNCHANGED <<shopping_list, fn_vars, handle_vars, is_logged_in, ocr_vars, i, context, close_calls, log, outcome,
                   attempt, cart_vars, item_vars>>

\* as next_item, staying on the same item once the first has been taken
next_item_same(k) == IF k = 0 THEN 1 ELSE k

\* the for statement of line 528 takes the item after position k, if any
next_item(k) == k + 1

\* line 528: the loop goes on to the next item, or ends (lines 572-579).
\* The names products and cheapest are bound anew before they are read
\* again, the page is left behind and add_to_cart's locals are gone, so the
\* values of the finished cycle are dropped here.
Advance(k) ==
    /\ IF k < Len(shopping_list)
       THEN /\ i' = next_item(k)
            /\ pc' = "search_product"
       ELSE /\ i' = k
            /\ pc' = "hold"
    /\ products' = <<>>
    /\ cheapest' = None
    /\ page' = <<>>
    /\ selector' = 0
    /\ tried' = <<>>
    /\ found' = {}
    /\ clicks' = 0
    /\ done_clicks' = 0
    /\ success' = "none"

\* line 525 and navigate_to_ozon_fresh: to the section root before the first item
NavigateToOzonFresh ==
    /\ pc = "navigate"
    /\ \E r \in {"ok", "raises"} :
        IF r = "ok"
        THEN /\ Advance(0)
             /\ UNCHANGED raised
        ELSE /\ Propagate("navigate_to_ozon_fresh")
             /\ UNCHANGED <<i, cart_vars, item_vars>>
    /\ log' = Append(log, <<"navigate_to_ozon_fresh", 0>>)
    /\ marks' = <<>>
    /\ UNCHANGED <<shopping_list, fn_vars, handle_vars, is_logged_in, confirmed, ocr_vars, context, close_calls,
                   outcome, attempt>>

-----------------------------------------------------------------------------
(* search_product, lines 217-261 *)

\* lines 235-244: the first search selector whose element is visible (0 if
\* none); an is_visible that raises is skipped like one that is not visible
first_visible(vis) ==
    IF \E k \in DOMAIN vis : vis[k] = "visible"
    THEN CHOOSE k \in DOMAIN vis :
            vis[k] = "visible" /\ \A j \in 1..(k - 1) : vis[j] # "visible"
    ELSE 0

\* lines 224-248: run calls search_product for item i; the selector loop
SearchProduct ==
    /\ pc = "search_product"
    /\ log' = Append(log, <<"search_product", i>>)
    /\ \E vis \in [1..5 -> {"visible", "hidden", "raises"}] :
        pc' = IF first_visible(vis) # 0 THEN "type_query" ELSE "click_by_ocr_text"
    /\ UNCHANGED <<shopping_list, fn_vars, handle_vars, login_vars, ocr_vars, i, context, close_calls, raised,
                   outcome, attempt, cart_vars, item_vars>>

\* as attempts_left, for a loop that never gives up
attempts_left_always(n) == TRUE

\* line 175, for attempt in range(retries): after n attempts another follows
attempts_left(n) == n < OCR_RETRIES

\* click_by_ocr_text, lines 175-189, called from line 248: one attempt of the
\* retry loop.  `attempt` counts the attempts begun.  take_screenshot or
\* mouse.click may raise; nothing in search_product catches that.
ClickByOcrText ==
    /\ pc = "click_by_ocr_text"
    /\ attempt' = attempt + 1
    /\ \/ /\ Propagate("search_product")
          /\ UNCHANGED ocr_vars
       \/ \E shot \in SampleScreens :
            /\ screenshot' = shot
            /\ coords' = find_text_with_ocr(shot, ISKAT)
            /\ IF coords' # <<>>
               THEN \/ /\ ocr_clicks' = Append(ocr_clicks, coords')
                       /\ ocr_result' = "true"
                       /\ pc' = "type_query"
                       /\ UNCHANGED raised
                    \/ /\ Propagate("search_product")
                       /\ UNCHANGED <<ocr_clicks, ocr_result>>
               ELSE /\ ocr_result' = IF attempts_left(attempt') THEN "none" ELSE "false"
                    /\ pc' = IF attempts_left(attempt') THEN "click_by_ocr_text" ELSE "type_query"
                    /\ UNCHANGED <<ocr_clicks, raised>>
    /\ UNCHANGED <<shopping_list, fn_vars, handle_vars, login_vars, i, context, close_calls, log, outcome,
                   cart_vars, item_vars>>

\* lines 249-261: the result of click_by_ocr_text is not read, the search
\* input is the first visible selector's element or, after the fallback,
\* whatever input has the focus; clear, fill, press Enter, any of which may
\* raise (with no focused input clear() times out).  The locals of
\* click_by_ocr_text are gone when search_product returns.
TypeQuery ==
    /\ pc = "type_query"
    /\ \E r \in {"ok", "raises"} :
        IF r = "ok"
        THEN /\ pc' = "parse_products"
             /\ handles_of' = 0
             /\ attempt' = 0
             /\ screenshot' = <<>>
             /\ coords' = <<>>
             /\ ocr_clicks' = <<>>
             /\ ocr_result' = "none"
             /\ UNCHANGED raised
        ELSE /\ Propagate("search_product")
             /\ UNCHANGED <<attempt, ocr_vars, handles_of>>
    /\ UNCHANGED <<shopping_list, fn_vars, stale_use, login_vars, i, context, close_calls, log, outcome,
                   cart_vars, item_vars>>

-----------------------------------------------------------------------------
(* run, lines 536-566: extraction and selection for item i *)

\* line 537: parse_products reads the result page; the count() calls of
\* lines 310 and 320 are outside its per-card try and may raise
ParseProducts ==
    /\ pc = "parse_products"
    /\ log' = Append(log, <<"parse_products", i>>)
    /\ \/ /\ Propagate("parse_products")
          /\ UNCHANGED <<item_vars, handles_of>>
       \/ \E pg \in Pages :
            /\ page' = pg
            /\ products' = parse_products(pg)
            /\ handles_of' = i
            /\ pc' = "select"
            /\ UNCHANGED <<raised, cheapest>>
    /\ UNCHANGED <<shopping_list, fn_vars, stale_use, login_vars, ocr_vars, i, context, close_calls, outcome, attempt, cart_vars>>

Report(k, what) == [outcome EXCEPT ![k] = Append(@, what)]

\* lines 539-566: no products: report and continue with the next item;
\* else select, and call add_to_cart when something was selected
Select ==
    /\ pc = "select"
    /\ IF products = <<>>
       THEN /\ outcome' = Report(i, "no candidates found")
            /\ Advance(i)
            /\ UNCHANGED log
       ELSE /\ cheapest' = select(products)
            /\ IF cheapest' # None
               THEN /\ pc' = "add_to_cart"
                    /\ log' = Append(log, <<"add_to_cart", i>>)
                    /\ UNCHANGED outcome
               ELSE /\ pc' = "item_done"
                    /\ outcome' = Report(i, "no suitable products")
                    /\ UNCHANGED log
            /\ UNCHANGED <<i, products, page, cart_vars>>
    /\ UNCHANGED <<shopping_list, fn_vars, handle_vars, login_vars, ocr_vars, context, close_calls, raised, attempt>>

-----------------------------------------------------------------------------
(* add_to_cart, lines 406-468 *)

\* the four labelled buttons of lines 434-439
button_selectors == <<"Zavtra", "Segodnya", "V korzinu", "Dobavit">>

\* as cart_return_true, without the return: the next strategy is tried
cart_no_return ==
    /\ success' = success
    /\ pc' = IF pc = "page_button" THEN "report" ELSE "card_click"
    /\ UNCHANGED raised

\* `return True` (lines 431, 448, 463) after a click and its report
cart_return_true ==
    /\ success' = "true"
    /\ pc' = "report"
    /\ UNCHANGED raised

\* `return False` of line 468, reached without an exception
cart_return_false ==
    /\ success' = "false"
    /\ pc' = "report"
    /\ UNCHANGED raised

\* as cart_except, the exception leaving add_to_cart
cart_except_reraised ==
    /\ success' = "false"
    /\ Propagate("add_to_cart")

\* lines 465-468: the one handler around all three strategies reports the
\* exception and add_to_cart returns False
cart_except ==
    /\ success' = "false"
    /\ pc' = "report"
    /\ UNCHANGED raised

\* as uses_card, with the product page's button looked up inside the card
uses_card_always(step) == TRUE

\* which steps of add_to_cart go through the card handle: 1 (line 422,
\* card.locator('button')), 2 (line 442, card.locator(selector)) and
\* 3 (line 453, card.click()); step 4 (line 457) asks self.page
uses_card(step) == step \in {1, 2, 3}

\* what looking for strategy s's control and clicking it did:
\*   "absent" - count() is 0;  "hidden" - is_visible() is false;
\*   "raises" - count() or is_visible() raised;
\*   "found_raises" - found, then text_content() raised before the click;
\*   "click_raises" - found, then click() raised;  "clicked" - click() returned
cart_attempt(s, r) ==
    /\ found' = IF r \in {"found_raises", "click_raises", "clicked"} THEN found \cup {s} ELSE found
    /\ clicks' = IF r \in {"click_raises", "clicked"} THEN clicks + 1 ELSE clicks
    /\ done_clicks' = IF r = "clicked" THEN done_clicks + 1 ELSE done_clicks
    /\ outcome' = IF r = "clicked" THEN Report(i, "added") ELSE outcome

\* lines 419-431, strategy 1: the first button in the card
FirstButton ==
    /\ pc = "add_to_cart"
    /\ tried' = Append(tried, 1)
    /\ stale_use' = (stale_use \/ (uses_card(1) /\ handles_of # i))
    /\ \E r \in {"absent", "hidden", "raises", "found_raises", "click_raises", "clicked"} :
        /\ cart_attempt(1, r)
        /\ CASE r = "clicked" -> cart_return_true /\ UNCHANGED selector
             [] r \in {"absent", "hidden"} ->
                    /\ pc' = "button_selectors"
                    /\ selector' = 1
                    /\ UNCHANGED <<success, raised>>
             [] OTHER -> cart_except /\ UNCHANGED selector
    /\ UNCHANGED <<shopping_list, fn_vars, handles_of, login_vars, ocr_vars, i, context, close_calls, log, attempt, item_vars>>

\* lines 441-448, strategy 2: the labelled buttons, in list order
LabelledButton ==
    /\ pc = "button_selectors"
    /\ tried' = IF selector = 1 THEN Append(tried, 2) ELSE tried
    /\ stale_use' = (stale_use \/ (uses_card(2) /\ handles_of # i))
    /\ \E r \in {"absent", "hidden", "raises", "click_raises", "clicked"} :
        /\ cart_attempt(2, r)
        /\ CASE r = "clicked" -> cart_return_true /\ selector' = 0
             [] r \in {"absent", "hidden"} ->
                    /\ pc' = IF selector < Len(button_selectors)
                             THEN "button_selectors" ELSE "card_click"
                    /\ selector' = IF selector < Len(button_selectors) THEN selector + 1 ELSE 0
                    /\ UNCHANGED <<success, raised>>
             [] OTHER -> cart_except /\ selector' = 0
    /\ UNCHANGED <<shopping_list, fn_vars, handles_of, login_vars, ocr_vars, i, context, close_calls, log, attempt, item_vars>>

\* lines 450-454, strategy 3: click the card (to the product page), wait
CardClick ==
    /\ pc = "card_click"
    /\ tried' = Append(tried, 3)
    /\ stale_use' = (stale_use \/ (uses_card(3) /\ handles_of # i))
    /\ \E r \in {"ok", "raises"} :
        IF r = "ok"
        THEN /\ pc' = "page_button"
             /\ handles_of' = 0
             /\ UNCHANGED <<success, raised>>
        ELSE cart_except /\ UNCHANGED handles_of
    /\ UNCHANGED <<shopping_list, fn_vars, login_vars, ocr_vars, i, context, close_calls, log, outcome, attempt, item_vars,
                   selector, found, clicks, done_clicks>>

\* lines 456-463, strategy 3: the add button of the product page (no
\* visibility test); without one, line 468 returns False
PageButton ==
    /\ pc = "page_button"
    /\ stale_use' = (stale_use \/ (uses_card(4) /\ handles_of # i))
    /\ \E r \in {"absent", "raises", "click_raises", "clicked"} :
        /\ cart_attempt(3, r)
        /\ CASE r = "clicked" -> cart_return_true
             [] r = "absent" -> cart_return_false
             [] OTHER -> cart_except
    /\ UNCHANGED <<shopping_list, fn_vars, handles_of, login_vars, ocr_vars, i, context, close_calls, log, attempt, item_vars,
                   selector, tried>>

-----------------------------------------------------------------------------
(* run, lines 561-586: after add_to_cart, between items, and the end *)

\* shopping_list.index(item), 1-based: the first position holding the item
index(list, item) ==
    CHOOSE k \in 1..Len(list) : list[k] = item /\ \A j \in 1..(k - 1) : list[j] # item

\* line 569: the condition for going back to the section root
goes_back(list, k) == index(list, list[k]) < Len(list)

\* lines 563-569: report a failed commit, then go back or go on
AfterAddToCart ==
    /\ pc = "report"
    /\ outcome' = IF success = "false" THEN Report(i, "selected but commit failed") ELSE outcome
    /\ pc' = "item_done"
    /\ UNCHANGED <<shopping_list, fn_vars, handle_vars, login_vars, ocr_vars, i, context, close_calls, raised, log, attempt, cart_vars,
                   item_vars>>

\* lines 568-570 and the loop's next iteration
ItemDone ==
    /\ pc = "item_done"
    /\ IF goes_back(shopping_list, i)
       THEN /\ log' = Append(log, <<"navigate_to_ozon_fresh", i>>)
            /\ \E r \in {"ok", "raises"} :
                IF r = "ok"
                THEN /\ Advance(i)
                     /\ handles_of' = 0
                     /\ UNCHANGED raised
                ELSE /\ Propagate("navigate_to_ozon_fresh")
                     /\ UNCHANGED <<i, cart_vars, item_vars, handles_of>>
       ELSE /\ Advance(i)
            /\ UNCHANGED <<log, raised, handles_of>>
    /\ UNCHANGED <<shopping_list, fn_vars, stale_use, login_vars, ocr_vars, context, close_calls, outcome, attempt>>

\* lines 572-579: all items done; the browser stays open for 30 seconds
Hold ==
    /\ pc = "hold"
    /\ pc' = "finally"
    /\ UNCHANGED <<shopping_list, fn_vars, handle_vars, login_vars, ocr_vars, i, context, close_calls, raised, log, outcome, attempt,
                   cart_vars, item_vars>>

\* lines 584-586: context.close(), after which run returns, or re-raises the
\* exception that brought it here, or raises the one of close itself
Close ==
    /\ pc = "finally"
    /\ close_calls' = close_calls + 1
    /\ \E r \in {"ok", "raises"} :
        /\ context' = IF r = "ok" THEN "closed" ELSE context
        /\ raised' = IF r = "raises" THEN "close" ELSE raised
    /\ pc' = IF raised' = "none" THEN "returned" ELSE "raised"
    /\ UNCHANGED <<shopping_list, fn_vars, handle_vars, login_vars, ocr_vars, i, log, outcome, attempt, cart_vars, item_vars>>

Next ==
    \/ Launch
    \/ AcquirePage
    \/ OpenSite
    \/ CheckLogin
    \/ WaitForManualLogin
    \/ NavigateToOzonFresh
    \/ SearchProduct
    \/ ClickByOcrText
    \/ TypeQuery
    \/ ParseProducts
    \/ Select
    \/ FirstButton
    \/ LabelledButton
    \/ CardClick
    \/ PageButton
    \/ AfterAddToCart
    \/ ItemDone
    \/ Hold
    \/ Close

Spec == Init /\ [][Next]_vars

\* run with every awaited call returning (normally or with an exception) and
\* the operator answering the login prompt: a step that can be taken is taken
SpecLive == Spec /\ WF_vars(Next)

TypeOK ==
    /\ pc \in {"launch", "acquire_page", "open_site", "check_login", "wait_for_manual_login",
               "navigate", "search_product", "click_by_ocr_text", "type_query",
               "parse_products", "select", "add_to_cart", "button_selectors", "card_click",
               "page_button", "report", "item_done", "hold", "finally", "returned", "raised"}
    /\ i \in 0..Len(shopping_list)
    /\ context \in {"none", "open", "closed"}
    /\ success \in {"none", "true", "false"}
    /\ marks \in {<<>>} \cup [1..3 -> {"present", "absent", "raises"}]
    /\ is_logged_in \in {"none", "true", "false"}
    /\ confirmed \in BOOLEAN
    /\ attempt \in 0..OCR_RETRIES
    /\ ocr_result \in {"none", "true", "false"}

-----------------------------------------------------------------------------
(* The selection policy on its own: select applied to every candidate      *)
(* sequence of up to MaxCands candidates, whatever their delivery texts.   *)

\* delivery texts: none, the two keywords, a text with a keyword inside it
\* ("poslezavtra", the day after tomorrow) and one without any keyword
SampleDeliveries ==
    { <<>>, ZAVTRA, SEGODNYA,
      <<"p", "o", "s", "l", "e">> \o ZAVTRA,
      <<"v", " ", "k", "o", "r", "z", "i", "n", "u">> }

SamplePrices == {Num(50), Num(100), Normal(12345, 1)}

\* the candidate sequence with the prices and delivery texts f gives
Candidate(f) == [k \in DOMAIN f |-> Product(f[k][1], f[k][2], k)]

InitSelect ==
    /\ \E n \in 0..MaxCands :
        \E f \in [1..n -> SamplePrices \X SampleDeliveries] : products = Candidate(f)
    /\ pc = "select"
    /\ handles_of = 1
    /\ stale_use = FALSE
    /\ fn_idle
    /\ login_idle
    /\ ocr_idle
    /\ shopping_list = <<"maslo">>
    /\ i = 1
    /\ context = "open"
    /\ close_calls = 0
    /\ raised = "none"
    /\ cheapest = None
    /\ log = <<>>
    /\ outcome = <<<<>>>>
    /\ selector = 0
    /\ tried = <<>>
    /\ found = {}
    /\ clicks = 0
    /\ done_clicks = 0
    /\ success = "none"
    /\ attempt = 0
    /\ page = <<>>

\* lines 545-555 applied to the candidates
ApplySelect ==
    /\ pc = "select"
    /\ cheapest' = select(products)
    /\ pc' = "selected"
    /\ UNCHANGED <<shopping_list, fn_vars, handle_vars, login_vars, ocr_vars, i, context, close_calls, raised, products, log, outcome,
                   attempt, page, cart_vars>>

NextSelect == ApplySelect

SpecSelect == InitSelect /\ [][NextSelect]_vars

-----------------------------------------------------------------------------
(* The functions of the module applied on their own.                       *)

\* run has not been started
run_idle ==
    /\ handle_idle
    /\ shopping_list = <<>>
    /\ i = 0
    /\ context = "none"
    /\ close_calls = 0
    /\ raised = "none"
    /\ cheapest = None
    /\ log = <<>>
    /\ outcome = <<>>
    /\ selector = 0
    /\ tried = <<>>
    /\ found = {}
    /\ clicks = 0
    /\ done_clicks = 0
    /\ success = "none"
    /\ attempt = 0

\* parse_products on a result page of up to MaxPageCards cards
InitParse ==
    /\ \E n \in 0..MaxPageCards : \E f \in [1..n -> SampleCards] : page = f
    /\ pc = "parse_products"
    /\ products = <<>>
    /\ run_idle
    /\ fn_idle
    /\ login_idle
    /\ ocr_idle

\* lines 307-372 applied to the page
ApplyParse ==
    /\ pc = "parse_products"
    /\ products' = parse_products(page)
    /\ pc' = "parsed"
    /\ UNCHANGED <<shopping_list, fn_vars, handle_vars, login_vars, ocr_vars, i, context, close_calls, raised,
                   cheapest, log, outcome, attempt, page, cart_vars>>

NextParse == ApplyParse

SpecParse == InitParse /\ [][NextParse]_vars

\* the characters of the short price texts: digits, both separators, a
\* space and the rouble sign
PriceChars == {"0", "1", "5", ",", ".", " ", "R"}

\* "199 R", "1 234,50 R" and "1.234.50"
T199 == <<"1", "9", "9", " ", "R">>
T1234 == <<"1", " ", "2", "3", "4", ",", "5", "0", " ", "R">>
TDots == <<"1", ".", "2", "3", "4", ".", "5", "0">>

\* digit strings at and beyond the range of a double, and a long one that
\* denotes a small number
LongTexts ==
    { DBL_OVERFLOW,
      DBL_OVERFLOW \o <<",", "5", "0", " ", "R">>,
      [k \in 1..(Len(DBL_OVERFLOW) + 1) |-> "9"],
      [k \in 1..(Len(DBL_OVERFLOW) + 1) |-> "0"] \o <<"7">> }

\* extract_price on every text of up to MaxTextLen price characters and on
\* the longer samples
InitPrice ==
    /\ \/ \E n \in 0..MaxTextLen : \E f \in [1..n -> PriceChars] : raw_text = f
       \/ raw_text \in {T100, T4990, TR, T199, T1234, TDots} \cup LongTexts
    /\ pc = "extract_price"
    /\ float_arg = <<>>
    /\ parsed = Inf
    /\ llm_idle
    /\ bot_idle
    /\ config_shipped
    /\ file = [exists |-> FALSE, content |-> <<>>]
    /\ products = <<>>
    /\ page = <<>>
    /\ run_idle
    /\ login_idle
    /\ ocr_idle

\* lines 272-288 applied to the text
ApplyPrice ==
    /\ pc = "extract_price"
    /\ float_arg' = IF raw_text = <<>> THEN <<>> ELSE normalise(raw_text)
    /\ parsed' = extract_price(raw_text)
    /\ pc' = "priced"
    /\ UNCHANGED <<shopping_list, handle_vars, config_vars, file, raw_text, llm_vars, bot_vars, login_vars, ocr_vars, i, context,
                   close_calls,
                   raised, products, cheapest, log, outcome, attempt, page, cart_vars>>

NextPrice == ApplyPrice

SpecPrice == InitPrice /\ [][NextPrice]_vars

\* the result lists of ocr.predict: up to MaxResults results of up to
\* MaxDets detections each
ResultKinds == UNION {[1..m -> SampleDetections] : m \in 0..MaxDets}

\* find_text_with_ocr on every such list, with "Iskat'" as the target
InitOcr ==
    /\ \E n \in 0..MaxResults : \E f \in [1..n -> ResultKinds] : screenshot = Screen(f)
    /\ pc = "find_text_with_ocr"
    /\ coords = <<>>
    /\ ocr_clicks = <<>>
    /\ ocr_result = "none"
    /\ products = <<>>
    /\ page = <<>>
    /\ run_idle
    /\ fn_idle
    /\ login_idle

\* lines 139-160 applied to the list
ApplyOcr ==
    /\ pc = "find_text_with_ocr"
    /\ coords' = find_text_with_ocr(screenshot, ISKAT)
    /\ pc' = "located"
    /\ UNCHANGED <<shopping_list, fn_vars, handle_vars, login_vars, screenshot, ocr_clicks, ocr_result, i,
                   context, close_calls, raised, products, cheapest, log, outcome, attempt, page,
                   cart_vars>>

NextOcr == ApplyOcr

SpecOcr == InitOcr /\ [][NextOcr]_vars

\* str.strip() removes these from both ends; "\n" ends a line
Whitespace == {" ", "\n", "\r"}

\* open(filepath, 'r') reads with universal newlines: "\r\n" and a lone "\r"
\* of the file arrive as "\n"
RECURSIVE universal_newlines(_)
universal_newlines(content) ==
    IF content = <<>> THEN <<>>
    ELSE IF Head(content) = "\r"
    THEN <<"\n">> \o universal_newlines(IF Len(content) >= 2 /\ content[2] = "\n"
                                          THEN SubSeq(content, 3, Len(content))
                                          ELSE Tail(content))
    ELSE <<Head(content)>> \o universal_newlines(Tail(content))

\* iterating a text file: the lines of the content, each with its newline
RECURSIVE file_lines(_)
file_lines(content) ==
    IF content = <<>> THEN <<>>
    ELSE IF \A k \in 1..Len(content) : content[k] # "\n" THEN <<content>>
    ELSE LET p == CHOOSE k \in 1..Len(content) :
                    content[k] = "\n" /\ \A j \in 1..(k - 1) : content[j] # "\n"
         IN  <<SubSeq(content, 1, p)>> \o file_lines(SubSeq(content, p + 1, Len(content)))

\* as strip, leaving the line as it is
strip_nothing(line) == line

\* line.strip()
strip(line) ==
    IF \A k \in 1..Len(line) : line[k] \in Whitespace THEN <<>>
    ELSE LET first == CHOOSE k \in 1..Len(line) :
                        line[k] \notin Whitespace /\ \A j \in 1..(k - 1) : line[j] \in Whitespace
             last == CHOOSE k \in 1..Len(line) :
                        line[k] \notin Whitespace /\ \A j \in (k + 1)..Len(line) : line[j] \in Whitespace
         IN  SubSeq(line, first, last)

\* line 48: [line.strip() for line in f if line.strip()]
RECURSIVE stripped_lines(_)
stripped_lines(lines) ==
    IF lines = <<>> THEN <<>>
    ELSE (IF strip(Head(lines)) # <<>> THEN <<strip(Head(lines))>> ELSE <<>>)
            \o stripped_lines(Tail(lines))

\* line 54: the built-in item, "slivochnoe maslo 82,5%"
DEFAULT_ITEM ==
    <<"s", "l", "i", "v", "o", "c", "h", "n", "o", "e", " ", "m", "a", "s", "l", "o", " ",
      "8", "2", ",", "5", "%">>

\* load_shopping_list, lines 43-54, for the file f
load_shopping_list(f) ==
    LET items == stripped_lines(file_lines(universal_newlines(f.content)))
    IN  IF f.exists /\ items # <<>> THEN items ELSE <<DEFAULT_ITEM>>

\* the characters of the shopping-list files
FileChars == {"a", "b", " ", "\n", "\r"}

\* load_shopping_list with no file, and with every file of up to MaxFileLen
\* characters
InitLoad ==
    /\ \/ file = [exists |-> FALSE, content |-> <<>>]
       \/ \E n \in 0..MaxFileLen : \E f \in [1..n -> FileChars] :
                file = [exists |-> TRUE, content |-> f]
    /\ pc = "load_shopping_list"
    /\ llm_idle
    /\ bot_idle
    /\ config_shipped
    /\ raw_text = <<>>
    /\ float_arg = <<>>
    /\ parsed = Inf
    /\ products = <<>>
    /\ page = <<>>
    /\ run_idle
    /\ login_idle
    /\ ocr_idle

\* lines 44-54 applied to the file
ApplyLoad ==
    /\ pc = "load_shopping_list"
    /\ shopping_list' = load_shopping_list(file)
    /\ pc' = "loaded"
    /\ UNCHANGED <<fn_vars, handle_vars, login_vars, ocr_vars, i, context, close_calls, raised, products,
                   cheapest, log, outcome, attempt, page, cart_vars>>

NextLoad == ApplyLoad

SpecLoad == InitLoad /\ [][NextLoad]_vars

-----------------------------------------------------------------------------
(* The bot's side of the shopping-list file, src/telegram_bot.py: a message *)
(* is turned into a product list by the language model, the list is saved, *)
(* and get-ozon.py loads it.  Both programs are taken to be started in the *)
(* bot's directory, so that the file written is the file read.             *)

\* text.split('\n'): the pieces between newlines (always at least one piece)
RECURSIVE SplitNewline(_)
SplitNewline(text) ==
    IF \A k \in 1..Len(text) : text[k] # "\n"
    THEN <<text>>
    ELSE LET p == CHOOSE k \in 1..Len(text) :
                    text[k] = "\n" /\ \A j \in 1..(k - 1) : text[j] # "\n"
         IN  <<SubSeq(text, 1, p - 1)>> \o SplitNewline(SubSeq(text, p + 1, Len(text)))

\* process_with_llm, line 108, for the text the model returned:
\* [line.strip() for line in content.strip().split('\n') if line.strip()]
process_with_llm(content) == stripped_lines(SplitNewline(strip(content)))

\* save_shopping_list, lines 218-223: the file is opened with 'w' and gets
\* each product followed by "\n"
save_shopping_list(prods) ==
    [exists |-> TRUE, content |-> Join([k \in 1..Len(prods) |-> prods[k] \o <<"\n">>])]

\* the characters of the model's replies
ReplyChars == {"a", "b", " ", "\n", "\r"}

Replies == UNION {[1..n -> ReplyChars] : n \in 0..MaxReplyLen}

\* a message arrives; the file is absent or holds an earlier list
InitBot ==
    /\ pc = "handle_message"
    /\ \/ file = [exists |-> FALSE, content |-> <<>>]
       \/ file = [exists |-> TRUE, content |-> <<"b", "\n">>]
    /\ llm_idle
    /\ bot_idle
    /\ config_shipped
    /\ raw_text = <<>>
    /\ float_arg = <<>>
    /\ parsed = Inf
    /\ products = <<>>
    /\ page = <<>>
    /\ run_idle
    /\ login_idle
    /\ ocr_idle

bot_rest == <<shopping_list, handle_vars, config_vars, raw_text, float_arg, parsed, llm_vars,
              login_vars, ocr_vars, i, context, close_calls, raised, products, cheapest, log,
              outcome, attempt, page, cart_vars>>

\* handle_message, lines 179-216: the model's reply is parsed; with no
\* product the user is told so and nothing is saved (lines 191-193), else
\* the list is saved (line 206); an exception of the model call is reported
\* to the user (lines 215-216)
HandleMessage ==
    /\ pc = "handle_message"
    /\ \/ \E content \in Replies :
            /\ reply' = content
            /\ product_list' = process_with_llm(content)
            /\ IF product_list' = <<>>
               THEN /\ pc' = "not_recognised"
                    /\ UNCHANGED file
               ELSE /\ file' = save_shopping_list(product_list')
                    /\ pc' = "load_shopping_list"
       \/ /\ pc' = "error_reported"
          /\ UNCHANGED <<reply, product_list, file>>
    /\ UNCHANGED bot_rest

NextBot ==
    \/ HandleMessage
    \/ ApplyLoad

SpecBot == InitBot /\ [][NextBot]_vars

-----------------------------------------------------------------------------
(* Extraction and the delivery filter under other configured keyword sets. *)

\* "Segodnya" (today) and "Poslezavtra" (the day after tomorrow) on a button
BSegodnya == <<"S", "e", "g", "o", "d", "n", "y">>
BPoslezavtra == <<"P", "o", "s", "l", "e", "z", "a", "v", "t", "r", "a">>

\* "cherez chas" (in an hour), a keyword Config does not ship
CHEREZ_CHAS == <<"c", "h", "e", "r", "e", "z", " ", "c", "h", "a", "s">>

\* values of Config.DELIVERY_FILTERS: as shipped, either keyword alone, and
\* another keyword
FilterConfigs == {DELIVERY_FILTERS, <<SEGODNYA>>, <<ZAVTRA>>, <<CHEREZ_CHAS>>}

\* priced cards with the buttons "Zavtra", "Segodnya", "Poslezavtra",
\* "V korzinu", "Cherez chas", and one without a button
DeliveryCards ==
    { Card(FALSE, TRUE, T100, TRUE, BZavtra),
      Card(FALSE, TRUE, T100, TRUE, BSegodnya),
      Card(FALSE, TRUE, T100, TRUE, BPoslezavtra),
      Card(FALSE, TRUE, T4990, TRUE, BKorzinu),
      Card(FALSE, TRUE, T4990, TRUE, CHEREZ_CHAS),
      Card(FALSE, TRUE, T4990, FALSE, <<>>) }

\* parse_products on a page of up to MaxCards such cards, for each value of
\* the configured keyword set
InitDelivery ==
    /\ delivery_filters \in FilterConfigs
    /\ \E n \in 0..MaxCards : \E f \in [1..n -> DeliveryCards] : page = f
    /\ pc = "parse_products"
    /\ products = <<>>
    /\ llm_idle
    /\ bot_idle
    /\ file = [exists |-> FALSE, content |-> <<>>]
    /\ raw_text = <<>>
    /\ float_arg = <<>>
    /\ parsed = Inf
    /\ run_idle
    /\ login_idle
    /\ ocr_idle

SpecDelivery == InitDelivery /\ [][NextParse]_vars

-----------------------------------------------------------------------------
(* GigaChatClient._get_access_token, src/llm_client.py:55-83.  Time is in   *)
(* whole seconds; the clock is read at line 58 and again at line 81, and   *)
(* may have moved on while the token request was under way.                *)

\* the readings of the clock: around every multiple of the margin
Instants ==
    {t \in 0..(MaxTicks * TOKEN_MARGIN + 1) :
        \E k \in 0..MaxTicks : t \in {k * TOKEN_MARGIN - 1, k * TOKEN_MARGIN, k * TOKEN_MARGIN + 1}}

\* the tokens the authorisation server hands out
Tokens == {"tokA", "tokB"}

\* line 58: the cached token is returned without a request
cached_valid(token, expires_at, t) ==
    token # "none" /\ t < expires_at - TOKEN_MARGIN

\* as new_cache, with the expiry set before the token is read from the reply
new_cache_expiry_first(r, token, t, cache) ==
    IF r = "ok" THEN [access_token |-> token, token_expires_at |-> t + TOKEN_LIFETIME]
    ELSE IF r = "no_field"
         THEN [access_token |-> cache.access_token, token_expires_at |-> t + TOKEN_LIFETIME]
    ELSE cache

\* lines 76-81: raise_for_status, response.json() and data['access_token']
\* all come before the first assignment, so only a complete reply is stored
new_cache(r, token, t, cache) ==
    IF r = "ok" THEN [access_token |-> token, token_expires_at |-> t + TOKEN_LIFETIME]
    ELSE cache

InitToken ==
    /\ pc = "token_idle"
    /\ llm_idle
    /\ bot_idle
    /\ config_shipped
    /\ file = [exists |-> FALSE, content |-> <<>>]
    /\ raw_text = <<>>
    /\ float_arg = <<>>
    /\ parsed = Inf
    /\ products = <<>>
    /\ page = <<>>
    /\ run_idle
    /\ login_idle
    /\ ocr_idle

token_rest ==
    <<shopping_list, handle_vars, config_vars, file, raw_text, float_arg, parsed, bot_vars, login_vars, ocr_vars, i, context,
      close_calls, raised, products, cheapest, log, outcome, attempt, page, cart_vars>>

\* time passes
Tick ==
    /\ pc \in {"token_idle", "token_exchange"}
    /\ \E t \in Instants : t > now /\ now' = t
    /\ UNCHANGED <<pc, access_token, token_expires_at, call, token_rest>>

\* lines 58-75: a call of _get_access_token returns the cached token or
\* sends the token request
GetAccessToken ==
    /\ pc = "token_idle"
    /\ IF cached_valid(access_token, token_expires_at, now)
       THEN /\ call' = [made |-> TRUE, at |-> now, token_before |-> access_token,
                        expires_before |-> token_expires_at, exchanged |-> FALSE,
                        stored_at |-> 0, returned |-> access_token, raised |-> "none"]
            /\ pc' = "token_idle"
       ELSE /\ call' = [made |-> TRUE, at |-> now, token_before |-> access_token,
                        expires_before |-> token_expires_at, exchanged |-> TRUE,
                        stored_at |-> 0, returned |-> "none", raised |-> "none"]
            /\ pc' = "token_exchange"
    /\ UNCHANGED <<access_token, token_expires_at, now, token_rest>>

\* lines 70-83: the request ends: a reply with a token, an HTTP error status
\* (raise_for_status), a reply that is no JSON, a reply without access_token
\* (KeyError), or no reply at all
ExchangeReturns ==
    /\ pc = "token_exchange"
    /\ \E r \in {"ok", "http_error", "bad_json", "no_field", "connection_error"} :
       \E token \in Tokens :
        LET cache == new_cache(r, token, now,
                               [access_token |-> access_token,
                                token_expires_at |-> token_expires_at])
        IN  /\ access_token' = cache.access_token
            /\ token_expires_at' = cache.token_expires_at
            /\ call' = [call EXCEPT !.stored_at = now,
                                    !.returned = IF r = "ok" THEN cache.access_token ELSE "none",
                                    !.raised = IF r = "ok" THEN "none" ELSE r]
    /\ pc' = "token_idle"
    /\ UNCHANGED <<now, token_rest>>

NextToken ==
    \/ Tick
    \/ GetAccessToken
    \/ ExchangeReturns

SpecToken == InitToken /\ [][NextToken]_vars

-----------------------------------------------------------------------------
(* Properties *)

CartPcs == {"add_to_cart", "button_selectors", "card_click", "page_button"}
Ended == {"returned", "raised"}
ItemOps == {"search_product", "parse_products", "add_to_cart"}

\* one step of run, seen from a failing add_to_cart: inside add_to_cart no
\* exception gets out; after a False result run reports the failure; and
\* after the report the next step goes on to the next position
C1_Step ==
    /\ pc \in CartPcs => raised' = "none" /\ pc' \in CartPcs \cup {"report"}
    /\ (pc = "report" /\ success = "false") =>
            /\ raised' = "none"
            /\ pc' = "item_done"
            /\ i' = i
            /\ outcome'[i] = <<"selected but commit failed">>
    /\ (pc = "item_done" /\ success = "false" /\ i < Len(shopping_list)) =>
            \/ pc' = "search_product" /\ i' = i + 1 /\ raised' = "none"
            \/ raised' = "navigate_to_ozon_fresh"

\* C1: when add_to_cart fails for item k (it returns False, also when a call
\* inside it raised), run does not abort: no exception leaves add_to_cart,
\* run reports the failure and, if k is not the last position, its next step
\* after the way back to the section root is the search for item k + 1 (only
\* an exception of that navigation itself can end the run there).
C1_CommitFailureContinues == [][C1_Step]_vars

\* item 1's commit failed and item 2 has been searched, extracted, selected
\* and committed
C1_Witness ==
    /\ Len(shopping_list) >= 2
    /\ outcome[1] = <<"selected but commit failed">>
    /\ i = 2
    /\ pc = "report"
    /\ success = "true"
    /\ {<<"search_product", 2>>, <<"parse_products", 2>>, <<"add_to_cart", 2>>} \subseteq Range(log)

\* C2 (as claimed): an exception raised by a step of one item's cycle
\* (search_product, parse_products, selection, add_to_cart) is caught within
\* the cycle, so it never leaves run (and the later items are processed).
C2_ItemExceptionCaught == raised \notin ItemOps

\* C3 (as claimed): on every exit of run after the context was launched,
\* context.close() has been executed.
C3_ContextClosedOnExit ==
    (pc \in Ended /\ context # "none") => close_calls >= 1

\* C4: the calls run makes are in input order of the items: the positions in
\* the log never decrease, no call is made twice for a position, every call
\* is for a position of the list, and a run that reaches the end of the loop
\* has searched every position (so exactly once).
C4_InputOrder ==
    /\ \A a, b \in 1..Len(log) : a < b => log[a][2] <= log[b][2]
    /\ \A a, b \in 1..Len(log) : log[a] = log[b] => a = b
    /\ \A a \in 1..Len(log) :
            /\ log[a][2] \in 0..Len(shopping_list)
            /\ log[a][1] \in ItemOps => log[a][2] >= 1
    /\ (pc \in {"search_product", "click_by_ocr_text", "type_query", "parse_products",
                "select", "report", "item_done"} \cup CartPcs) => i \in 1..Len(shopping_list)
    /\ (log # <<>> /\ pc \notin {"hold", "finally"} \cup Ended) => log[Len(log)][2] \in {i - 1, i}
    /\ (pc \in {"hold", "returned"}) =>
            \A k \in 1..Len(shopping_list) : <<"search_product", k>> \in Range(log)

\* a run over a list of two equal items has returned after committing both
C4_Witness ==
    /\ pc = "returned"
    /\ Len(shopping_list) >= 2
    /\ shopping_list[1] = shopping_list[2]
    /\ {<<"add_to_cart", 1>>, <<"add_to_cart", 2>>} \subseteq Range(log)

\* C5 (as claimed): when run has ended without a failure of the session
\* itself (launch, navigation, login wait, close), every item of the list
\* has exactly one of the three outcomes.
C5_EveryItemHasOutcome ==
    (pc \in Ended /\ raised \in {"none"} \cup ItemOps) =>
        \A k \in 1..Len(shopping_list) :
            /\ Len(outcome[k]) = 1
            /\ outcome[k][1] \in {"added", "no candidates found", "selected but commit failed"}

\* the first position of least price among the positions in S
FirstCheapest(prods, S) ==
    CHOOSE k \in S :
        \A j \in S : /\ ~PriceLt(prods[j].price, prods[k].price)
                     /\ j < k => PriceLt(prods[k].price, prods[j].price)

\* the positions whose delivery text holds a keyword of DELIVERY_FILTERS
WithKeyword(prods) ==
    {k \in 1..Len(prods) : \E w \in Range(DELIVERY_FILTERS) : Contains(w, prods[k].delivery)}

Selected == pc \in {"selected", "report", "item_done"} \cup CartPcs

\* C6: when some candidate's delivery text contains a configured keyword,
\* the selected candidate is the first candidate of least price among those
\* with a keyword, whatever the prices of the others.
C6_FilteredCheapest ==
    (Selected /\ WithKeyword(products) # {}) =>
        cheapest = products[FirstCheapest(products, WithKeyword(products))]

\* a candidate without keyword is cheaper than the selected one
C6_Witness ==
    /\ pc = "selected"
    /\ WithKeyword(products) # {}
    /\ \E k \in 1..Len(products) :
            k \notin WithKeyword(products) /\ PriceLt(products[k].price, cheapest.price)

\* C7: when no candidate's delivery text contains a configured keyword, the
\* selected candidate is the first candidate of least price of the whole
\* sequence; the selection is None only for the empty sequence.
C7_FallbackCheapest ==
    Selected =>
        /\ (WithKeyword(products) = {} /\ products # <<>>) =>
                cheapest = products[FirstCheapest(products, 1..Len(products))]
        /\ cheapest = None <=> products = <<>>

\* no keyword anywhere, and the least price occurs twice
C7_Witness ==
    /\ pc = "selected"
    /\ WithKeyword(products) = {}
    /\ \E j, k \in 1..Len(products) :
            j < k /\ cheapest = products[j] /\ products[k].price = products[j].price

\* the card has a price span whose text holds a digit
HasPrice(card) ==
    card.has_price /\ \E k \in 1..Len(card.price_text) : card.price_text[k] \in Digits

\* C8: every candidate parse_products returned has a finite price and comes
\* from a card with a parseable price; so has every candidate of the
\* filtered set and the candidate passed to add_to_cart.
C8_FinitePrices ==
    /\ \A k \in 1..Len(products) :
            /\ ~products[k].price.inf
            /\ products[k].card_element \in 1..Len(page)
            /\ HasPrice(page[products[k].card_element])
            /\ ~page[products[k].card_element].throws
    /\ \A k \in 1..Len(filter_by_delivery(products)) : ~filter_by_delivery(products)[k].price.inf
    /\ pc \in CartPcs \cup {"report"} =>
            /\ ~cheapest.price.inf
            /\ cheapest.card_element \in 1..Len(page)
            /\ HasPrice(page[cheapest.card_element])

\* add_to_cart runs for a page that also has a card without a parseable price
C8_Witness ==
    /\ pc = "add_to_cart"
    /\ \E k \in 1..Len(page) : ~HasPrice(page[k]) /\ ~page[k].throws

\* C9: add_to_cart attempts its strategies in the order 1, 2, 3; a strategy
\* is attempted only if no earlier one found its control; once a control was
\* found or clicked no further strategy is attempted; at most one add-control
\* click is made; True is returned exactly when a click completed.
C9_StrategyOrder ==
    /\ tried \in {<<>>, <<1>>, <<1, 2>>, <<1, 2, 3>>}
    /\ \A s \in Range(tried) : \A f \in found : f >= s
    /\ pc = "button_selectors" => selector \in 1..Len(button_selectors)
    /\ found # {} => pc \notin CartPcs
    /\ clicks <= 1
    /\ done_clicks <= clicks
    /\ success = "true" <=> done_clicks = 1
    /\ (pc \in CartPcs) => success = "none"
    /\ (pc = "report") => success \in {"true", "false"}

\* strategies 1 and 2 found nothing and the click of strategy 3 succeeded
C9_Witness ==
    /\ pc = "report"
    /\ success = "true"
    /\ tried = <<1, 2, 3>>
    /\ found = {3}
    /\ clicks = 1

\* C10 (as claimed): add_to_cart returns False only after all three
\* strategies have been attempted, an exception in strategy 1 or 2 counting
\* as that strategy failing.
C10_FalseOnlyAfterAllStrategies ==
    success = "false" => tried = <<1, 2, 3>>

\* the cards parse_products looks at: the first MAX_PRODUCTS_TO_CHECK of the page
Inspected == 1..Min(Len(page), MAX_PRODUCTS_TO_CHECK)

\* the candidates come from cards in page order
InPageOrder ==
    \A j, k \in 1..Len(products) : j < k => products[j].card_element < products[k].card_element

\* C11: in parse_products a result element whose reads raise is skipped and
\* nothing else is: the returned sequence holds exactly the other elements
\* among the first N that have a finite price, each once, in page order.
C11_OnlyThrowingSkipped ==
    pc = "parsed" =>
        /\ {products[k].card_element : k \in 1..Len(products)}
                = {k \in Inspected : ~page[k].throws /\ HasPrice(page[k])}
        /\ InPageOrder
        /\ \A k \in 1..Len(products) :
                products[k].price = card_price(page[products[k].card_element])

\* element 3 of 5 raises and the other four are returned
C11_Witness ==
    /\ pc = "parsed"
    /\ Len(page) = 5
    /\ page[3].throws
    /\ Len(products) = 4

\* C12: parse_products returns at most MAX_PRODUCTS_TO_CHECK candidates, all
\* from the first MAX_PRODUCTS_TO_CHECK cards of the page and in page order;
\* the cards after that prefix have no influence on the result, even when
\* cards of the prefix were skipped.
C12_CappedPrefix ==
    pc = "parsed" =>
        /\ Len(products) <= MAX_PRODUCTS_TO_CHECK
        /\ \A k \in 1..Len(products) : products[k].card_element \in Inspected
        /\ InPageOrder
        /\ products = parse_products(SubSeq(page, 1, Min(Len(page), MAX_PRODUCTS_TO_CHECK)))

\* a page of more cards than the cap, with a skipped card inside the prefix
\* and a card with a price after it
C12_Witness ==
    /\ pc = "parsed"
    /\ Len(page) > MAX_PRODUCTS_TO_CHECK
    /\ page[2].throws
    /\ HasPrice(page[Len(page)]) /\ ~page[Len(page)].throws
    /\ Len(products) = MAX_PRODUCTS_TO_CHECK - 1

\* C13 (as claimed): the search of every item after the first is preceded
\* by a navigation to the section root made after the item before it,
\* whatever that item's outcome, and no navigation follows the last item,
\* for every shopping list, repeated item strings included.
C13_ReNavigateBetweenItems ==
    /\ \A k \in 2..Len(shopping_list) : \A p \in 1..Len(log) :
            log[p] = <<"search_product", k>> =>
                \E q \in 1..(p - 1) : log[q] = <<"navigate_to_ozon_fresh", k - 1>>
    /\ \A p \in 1..Len(log) : log[p] # <<"navigate_to_ozon_fresh", Len(shopping_list)>>

\* the login check found no logged-in marker: every selector matched nothing,
\* or one raised before any matched
NoMarkerFound ==
    \/ \A k \in 1..3 : marks[k] = "absent"
    \/ \E k \in 1..3 : marks[k] = "raises" /\ \A j \in 1..(k - 1) : marks[j] = "absent"

\* C14: the manual-login wait is entered only with the wait flag set and a
\* login check that found none of the logged-in markers (a check that raises
\* counting as not logged in); from then on, until the operator's
\* confirmation has been received, nothing is navigated to and no item is
\* searched.
C14_WaitForOperator ==
    /\ pc = "wait_for_manual_login" =>
            /\ WAIT_FOR_LOGIN
            /\ is_logged_in = "false"
            /\ NoMarkerFound
    /\ (is_logged_in = "false" /\ ~confirmed) =>
            /\ log = <<>>
            /\ i = 0
            /\ pc \in {"wait_for_manual_login", "finally", "raised"}

\* the second selector raised, the operator confirmed, and the first item is
\* being searched
C14_Witness ==
    /\ is_logged_in = "false"
    /\ confirmed
    /\ \E p \in 1..Len(log) : log[p] = <<"search_product", 1>>

IsDigit(c) == c \in Digits
IsSeparator(c) == c \in {",", "."}
HasDigit(text) == \E k \in 1..Len(text) : IsDigit(text[k])
HasSeparator(text) == \E k \in 1..Len(text) : IsSeparator(text[k])

\* the position of the last comma or period of the text
LastSeparator(text) ==
    CHOOSE k \in 1..Len(text) :
        IsSeparator(text[k]) /\ \A j \in (k + 1)..Len(text) : ~IsSeparator(text[j])

\* the digits of the text before and after its last separator (all of them
\* and none when it has no separator)
DigitsBefore(text) ==
    IF HasSeparator(text)
    THEN SelectSeq(SubSeq(text, 1, LastSeparator(text) - 1), IsDigit)
    ELSE SelectSeq(text, IsDigit)
DigitsAfter(text) ==
    IF HasSeparator(text)
    THEN SelectSeq(SubSeq(text, LastSeparator(text) + 1, Len(text)), IsDigit)
    ELSE <<>>

\* the integer part of the text's number is beyond the range of a double
BeyondDouble(text) ==
    LET ds == StripZeros(DigitsBefore(text))
    IN  \/ Len(ds) > Len(DBL_OVERFLOW)
        \/ Len(ds) = Len(DBL_OVERFLOW) /\ DigitsGe(ds, DBL_OVERFLOW)

\* C15 (as claimed): extract_price never raises; it returns +infinity when
\* the text is empty or nothing parseable remains after stripping (no
\* digit), and a finite non-negative number otherwise.
C15_SentinelIffUnparseable ==
    pc = "priced" =>
        /\ raised = "none"
        /\ parsed.inf <=> ~HasDigit(raw_text)
        /\ ~parsed.inf => parsed.n >= 0

\* C15 (amended): extract_price never raises; it returns +infinity when the
\* text is empty, when no digit remains after stripping, or when the digits
\* denote a number beyond the range of a double, and a finite non-negative
\* number otherwise.
C15_SentinelIffUnparseableOrHuge ==
    pc = "priced" =>
        /\ raised = "none"
        /\ parsed.inf <=> (~HasDigit(raw_text) \/ BeyondDouble(raw_text))
        /\ ~parsed.inf => parsed.n >= 0

\* a text of digits for which +infinity was returned
C15_Witness ==
    /\ pc = "priced"
    /\ HasDigit(raw_text)
    /\ parsed.inf

\* C16: the string extract_price hands to float() holds the digits of the
\* text, all of them and in their order, and at most one period, which
\* stands where the last separator of the text stood; "199 R" gives 199 and
\* "1 234,50 R" gives 1234.50.
C16_Normalisation ==
    (pc = "priced" /\ raw_text # <<>>) =>
        /\ \A k \in 1..Len(float_arg) : IsDigit(float_arg[k]) \/ float_arg[k] = "."
        /\ SelectSeq(float_arg, IsDigit) = SelectSeq(raw_text, IsDigit)
        /\ float_arg = IF HasSeparator(raw_text)
                       THEN DigitsBefore(raw_text) \o <<".">> \o DigitsAfter(raw_text)
                       ELSE DigitsBefore(raw_text)
        /\ raw_text = T199 => parsed = Num(199)
        /\ raw_text = T1234 => parsed = Normal(123450, 2)
        /\ raw_text = TDots => parsed = Normal(123450, 2)

\* a text with several separators was parsed
C16_Witness ==
    /\ pc = "priced"
    /\ \E j, k \in 1..Len(raw_text) : j < k /\ IsSeparator(raw_text[j]) /\ IsSeparator(raw_text[k])
    /\ HasDigit(DigitsAfter(raw_text))
    /\ ~parsed.inf

\* all detections of the screenshot, in the order ocr.predict produced them
RECURSIVE Flat(_)
Flat(rs) == IF rs = <<>> THEN <<>> ELSE Head(rs) \o Flat(Tail(rs))

\* the detection's text holds "iskat" in whatever case, with confidence above 0.5
Matches(det) ==
    /\ det.score > 5
    /\ \E start \in 0..(Len(det.text) - 5) :
            /\ det.text[start + 1] \in {"i", "I"}
            /\ det.text[start + 2] \in {"s", "S"}
            /\ det.text[start + 3] \in {"k", "K"}
            /\ det.text[start + 4] \in {"a", "A"}
            /\ det.text[start + 5] \in {"t", "T"}

\* the middle of the box, cut to whole pixels
Middle(poly) == << (poly[1][1] + poly[3][1]) \div 2, (poly[1][2] + poly[3][2]) \div 2 >>

\* C17: find_text_with_ocr returns the centre of the first detection, in the
\* order of production, whose text contains the target case-insensitively
\* with a confidence strictly above 0.5, whatever detections follow it, and
\* not-found when no detection qualifies.
C17_FirstQualifyingDetection ==
    pc = "located" =>
        LET dets == Flat(screenshot)
            hits == {k \in 1..Len(dets) : Matches(dets[k])}
        IN  IF hits = {}
            THEN coords = <<>>
            ELSE \E k \in hits :
                    /\ \A j \in hits : k <= j
                    /\ coords = Middle(dets[k].poly)

\* the target in capitals at 0.9 comes before a longer text with the target
\* at 0.6, and the centre of the first box is returned
C17_Witness ==
    /\ pc = "located"
    /\ Len(screenshot) = 1
    /\ Len(screenshot[1]) = 2
    /\ screenshot[1][1].text = <<"I", "S", "K", "A", "T">>
    /\ screenshot[1][1].score = 9
    /\ screenshot[1][2].score = 6
    /\ coords = <<120, 13>>

\* C18: click_by_ocr_text makes at most `retries` attempts and none after
\* one that found the text; it clicks once, at the coordinates found, when
\* it returns True, and not at all when it returns False, which it does
\* only after exactly `retries` attempts that found nothing.
C18_BoundedAttempts ==
    /\ attempt <= OCR_RETRIES
    /\ pc = "click_by_ocr_text" =>
            /\ attempt < OCR_RETRIES
            /\ coords = <<>>
            /\ ocr_clicks = <<>>
            /\ ocr_result = "none"
    /\ ocr_result = "true" =>
            /\ attempt \in 1..OCR_RETRIES
            /\ coords # <<>>
            /\ ocr_clicks = <<coords>>
    /\ ocr_result = "false" =>
            /\ attempt = OCR_RETRIES
            /\ coords = <<>>
            /\ ocr_clicks = <<>>
    /\ ocr_result = "none" => ocr_clicks = <<>>

\* the third attempt found the text and clicked it
C18_Witness ==
    /\ pc = "type_query"
    /\ ocr_result = "true"
    /\ attempt = OCR_RETRIES
    /\ Len(ocr_clicks) = 1

\* C19 (as claimed): when no search selector is visible and the text search
\* finds nothing within its retries, the lookup counts as not found and the
\* run goes on with its remaining items: it does not end with an exception
\* of search_product.
C19_LookupFailureNotFatal ==
    ~(ocr_result = "false" /\ raised = "search_product")

IsBlank(c) == c \in {" ", "\n", "\r"}

\* the lines of the file as pairs of positions: a stretch without newline
\* between two newlines or ends of the file, with a non-blank character
NonBlankLines ==
    LET c == file.content
    IN  { ab \in (1..Len(c)) \X (1..Len(c)) :
            /\ ab[1] <= ab[2]
            /\ \A k \in ab[1]..ab[2] : c[k] \notin {"\n", "\r"}
            /\ ab[1] = 1 \/ c[ab[1] - 1] \in {"\n", "\r"}
            /\ ab[2] = Len(c) \/ c[ab[2] + 1] \in {"\n", "\r"}
            /\ \E k \in ab[1]..ab[2] : ~IsBlank(c[k]) }

\* the line from its first to its last non-blank character
Trimmed(ab) ==
    LET c == file.content
        ink == {k \in ab[1]..ab[2] : ~IsBlank(c[k])}
    IN  [k \in 1..Cardinality((CHOOSE lo \in ink : \A x \in ink : lo <= x)
                                 ..(CHOOSE hi \in ink : \A x \in ink : hi >= x)) |->
            c[(CHOOSE lo \in ink : \A x \in ink : lo <= x) + k - 1]]

\* C20: load_shopping_list returns the non-blank lines of the file, trimmed
\* and in file order, when the file exists and has such a line, and the one
\* built-in item otherwise; the list is never empty and has no blank entry.
C20_LoadedList ==
    pc = "loaded" =>
        /\ IF file.exists /\ NonBlankLines # {}
           THEN /\ Len(shopping_list) = Cardinality(NonBlankLines)
                /\ \A ab \in NonBlankLines :
                        shopping_list[Cardinality({x \in NonBlankLines : x[1] <= ab[1]})]
                            = Trimmed(ab)
           ELSE shopping_list = <<DEFAULT_ITEM>>
        /\ shopping_list # <<>>
        /\ \A k \in 1..Len(shopping_list) :
                \E j \in 1..Len(shopping_list[k]) : ~IsBlank(shopping_list[k][j])

\* a file with a blank line between two padded lines gave two trimmed items
C20_Witness ==
    /\ pc = "loaded"
    /\ file.content = <<" ", "a", "\n", "\n", "b">>
    /\ shopping_list = << <<"a">>, <<"b">> >>

\* C21 (as claimed): a call of _get_access_token makes a token exchange
\* exactly when no token is cached or now > token_expires_at - 300, and at
\* now = token_expires_at - 300 it returns the cached token without an
\* exchange; after a successful exchange token_expires_at is the time of
\* the exchange plus 1800 seconds.
C21_ExchangeExactlyWhenStale ==
    call.made =>
        /\ call.exchanged <=>
                (call.token_before = "none" \/ call.at > call.expires_before - 300)
        /\ ~call.exchanged =>
                /\ call.returned = call.token_before
                /\ access_token = call.token_before
                /\ token_expires_at = call.expires_before
        /\ (call.exchanged /\ call.returned # "none") =>
                token_expires_at = call.stored_at + 1800

\* C26: a token exchange that fails (HTTP error status, or a reply without
\* access_token) raises and leaves the cache as it was: access_token and
\* token_expires_at keep their values, so there is never an expiry without
\* a token nor a token without an expiry.
C26_FailedExchangeKeepsCache ==
    /\ (call.made /\ call.raised # "none") =>
            /\ call.returned = "none"
            /\ access_token = call.token_before
            /\ token_expires_at = call.expires_before
    /\ access_token = "none" <=> token_expires_at = 0

\* a refresh of a cached token failed with a reply that has no access_token
C26_Witness ==
    /\ pc = "token_idle"
    /\ call.raised = "no_field"
    /\ call.token_before # "none"
    /\ access_token = call.token_before

\* C22: a candidate's card handle is never used after a navigation that
\* followed its extraction: whenever add_to_cart is about to work on the
\* card, the page still holds the handles extracted for the current item
\* (not those of an earlier item, and no navigation since), and after the
\* click on the card has led to the product page no step goes through it.
C22_NoStaleHandle ==
    /\ ~stale_use
    /\ pc \in {"add_to_cart", "button_selectors", "card_click"} =>
            /\ handles_of = i
            /\ cheapest.card_element \in 1..Len(page)
    /\ pc = "page_button" => handles_of = 0

\* the second item's candidate was added from its product page, after the
\* return to the section root that followed the first item
C22_Witness ==
    /\ i = 2
    /\ pc = "report"
    /\ success = "true"
    /\ tried = <<1, 2, 3>>
    /\ handles_of = 0
    /\ \E p \in 1..Len(log) : log[p] = <<"navigate_to_ozon_fresh", 1>>

\* C23 (as claimed): for every value of the configured keyword set, the
\* delivery text of every candidate parse_products returns is empty or is
\* the lower-cased button text and holds a configured keyword; hence
\* filter_by_delivery keeps exactly the candidates with a delivery text.
C23_DeliveryTextHasConfiguredKeyword ==
    pc = "parsed" =>
        /\ \A k \in 1..Len(products) :
                \/ products[k].delivery = <<>>
                \/ /\ products[k].delivery = Lower(page[products[k].card_element].button_text)
                   /\ \E j \in 1..Len(delivery_filters) :
                            Contains(delivery_filters[j], products[k].delivery)
        /\ filter_by_delivery(products)
                = SelectSeq(products, LAMBDA c : c.delivery # <<>>)

\* C24 (as claimed): every run eventually leaves the driver, and leaves it
\* with the browser context released: context.close() has been called on the
\* context the run launched (no context was launched when the launch raised).
C24_EndsWithContextClosed ==
    <>(pc \in Ended /\ (context = "none" \/ close_calls >= 1))

\* the termination half of C24 alone: no run loops or blocks forever
RunTerminates == <>(pc \in Ended)

\* C25: whenever run reaches the selection with at least one extracted
\* candidate, find_cheapest returns a candidate (never None), add_to_cart is
\* called for that item, and no item is ever reported as having no suitable
\* products.
C25_SelectionNeverEmpty ==
    [][ /\ (pc = "select" /\ products # <<>>) =>
            /\ cheapest' # None
            /\ pc' = "add_to_cart"
            /\ log' = Append(log, <<"add_to_cart", i>>)
        /\ \A k \in DOMAIN outcome' :
            \A j \in 1..Len(outcome'[k]) : outcome'[k][j] # "no suitable products" ]_vars

\* add_to_cart has been called with a candidate that came from the fallback:
\* no extracted candidate has a delivery keyword
C25_Witness ==
    /\ pc = "add_to_cart"
    /\ products # <<>>
    /\ filter_by_delivery(products) = <<>>
    /\ cheapest # None
    /\ log[Len(log)] = <<"add_to_cart", i>>

\* C27 (as claimed): the list load_shopping_list reads from the file that
\* save_shopping_list wrote is the list process_with_llm produced: the same
\* entries in the same order.
C27_RoundTrip ==
    pc = "loaded" => shopping_list = product_list

====
